---- MODULE Spec2Model ----
(***************************************************************************)
(* A model of nikola/plugins/command/import_wordpress.py: the WordPress    *)
(* (WXR) importer of Nikola.                                               *)
(*                                                                         *)
(* Text is modelled as a sequence of tokens.  Every token is a piece of    *)
(* text that the regular expressions and string methods of the importer    *)
(* either match as a whole or not at all, so the token-level operators     *)
(* below compute what the character-level code computes on these texts.    *)
(***************************************************************************)
EXTENDS Integers, Sequences, FiniteSets, TLC

\* ------------------------------------------------------------------ bounds

\* longest code body drawn for transform_code
MaxBody == 2
\* most items in the export of a single run
MaxItems == 2
\* most runs of the importer in one process
MaxRuns == 3
\* most items in an export of a process that runs the importer repeatedly
MaxRunItems == 1

\* the language sections of a text handed to separate_qtranslate_content
MaxSections == 2

\* ----------------------------------------------------------------- helpers

Min(S) == CHOOSE x \in S : \A y \in S : x <= y

Max(S) == CHOOSE x \in S : \A y \in S : x >= y

Range(s) == {s[k] : k \in 1..Len(s)}

\* s[a..b], the empty text when a > b
Slice(s, a, b) == IF a > b THEN <<>> ELSE SubSeq(s, a, b)

\* sequences over S of length at most n
SeqsUpTo(S, n) == UNION {[1..k -> S] : k \in 0..n}

\* ------------------------------------------------------- transform_code

\* sub-pattern \[/code\] (or \[/sourcecode\]) matches at c
ClosesAt(s, c, close) == c + 1 <= Len(s) /\ s[c] = close /\ s[c + 1] = "]"

\* where the lazy (.*?) before the closing marker can stop, starting at from
CloseSet(s, from, close) == {c \in from..Len(s) : ClosesAt(s, c, close)}

\* \[code.* lang.*?="(.*?)?".*\](.*?)\[/code\] tried at position i.  The sets
\* hold the positions at which each literal can match with the rest of the
\* pattern still matching; a greedy quantifier takes the largest, a lazy one
\* the smallest.
LangBracket(s, q, close) ==
    {r \in (q + 1)..Len(s) : s[r] = "]" /\ CloseSet(s, r + 1, close) # {}}

LangQuote(s, p2, close) ==
    {q \in (p2 + 2)..Len(s) : s[q] = "\"" /\ LangBracket(s, q, close) # {}}

LangEq(s, p1, close) ==
    {p2 \in (p1 + 1)..Len(s) :
        /\ p2 + 1 <= Len(s)
        /\ s[p2] = "="
        /\ s[p2 + 1] = "\""
        /\ LangQuote(s, p2, close) # {}}

LangAttr(s, i, close) ==
    {p1 \in (i + 1)..Len(s) : s[p1] = " lang" /\ LangEq(s, p1, close) # {}}

NoMatch == [found |-> FALSE]

\* the match of a pattern with a language attribute anchored at i
LangMatchAt(s, i, close) ==
    LET p1 == Max(LangAttr(s, i, close))
        p2 == Min(LangEq(s, p1, close))
        q  == Min(LangQuote(s, p2, close))
        r  == Max(LangBracket(s, q, close))
        c  == Min(CloseSet(s, r + 1, close))
    IN  [found |-> TRUE, start |-> i, end |-> c + 1, ngroups |-> 2,
         g0 |-> Slice(s, i, c + 1),
         g1 |-> Slice(s, p2 + 2, q - 1),
         g2 |-> Slice(s, r + 1, c - 1)]

LangSearch(s, pos, open, close) ==
    LET starts == {i \in pos..Len(s) : s[i] = open /\ LangAttr(s, i, close) # {}}
    IN  IF starts = {} THEN NoMatch ELSE LangMatchAt(s, Min(starts), close)

\* \[code.*?\](.*?)\[/code\] tried at position i
PlainBracket(s, i, close) ==
    {r \in (i + 1)..Len(s) : s[r] = "]" /\ CloseSet(s, r + 1, close) # {}}

PlainMatchAt(s, i, close) ==
    LET r == Min(PlainBracket(s, i, close))
        c == Min(CloseSet(s, r + 1, close))
    IN  [found |-> TRUE, start |-> i, end |-> c + 1, ngroups |-> 1,
         g0 |-> Slice(s, i, c + 1),
         g1 |-> Slice(s, r + 1, c - 1),
         g2 |-> <<>>]

PlainSearch(s, pos, open, close) ==
    LET starts == {i \in pos..Len(s) : s[i] = open /\ PlainBracket(s, i, close) # {}}
    IN  IF starts = {} THEN NoMatch ELSE PlainMatchAt(s, Min(starts), close)

code_re1(s, pos) == LangSearch(s, pos, "[code", "[/code")

code_re2(s, pos) == LangSearch(s, pos, "[sourcecode", "[/sourcecode")

code_re3(s, pos) == PlainSearch(s, pos, "[code", "[/code")

code_re4(s, pos) == PlainSearch(s, pos, "[sourcecode", "[/sourcecode")

\* code.replace('&amp;', '&') ... code.replace('&quot;', '"'), in this order
UnescapeToken(t) ==
    LET a == IF t = "&amp;" THEN "&" ELSE t
        b == IF a = "&gt;" THEN ">" ELSE a
        c == IF b = "&lt;" THEN "<" ELSE b
    IN  IF c = "&quot;" THEN "\"" ELSE c

Unescape(code) == [k \in 1..Len(code) |-> UnescapeToken(code[k])]

\* the token of the three backquotes that fence a code block
Fence == "<fence>"

\* the code text the replacement takes from a match
ReplacementCode(m) == IF m.ngroups = 1 THEN m.g0 ELSE m.g2

replacement(m) ==
    LET language == IF m.ngroups = 1 THEN <<>> ELSE m.g1
        code     == Unescape(ReplacementCode(m))
    IN  <<Fence>> \o language \o <<"\n">> \o code \o <<"\n", Fence>>

\* the next match of the pattern code_re<re> in s, from position pos on
Search(re, s, pos) ==
    IF re = 1 THEN code_re1(s, pos)
    ELSE IF re = 2 THEN code_re2(s, pos)
    ELSE IF re = 3 THEN code_re3(s, pos)
    ELSE code_re4(s, pos)

\* pattern.sub(replacement, content): every match, left to right, none
\* overlapping; m is the next match from pos on
RECURSIVE SubFrom(_, _, _)
SubMatch(re, s, pos, m) ==
    IF pos > Len(s) \/ ~m.found
    THEN Slice(s, pos, Len(s))
    ELSE Slice(s, pos, m.start - 1) \o replacement(m) \o SubFrom(re, s, m.end + 1)

SubFrom(re, s, pos) == SubMatch(re, s, pos, Search(re, s, pos))

transform_code(content) ==
    SubFrom(4, SubFrom(3, SubFrom(2, SubFrom(1, content, 1), 1), 1), 1)

\* ---------------------------------------------- the other transformers

\* re.sub(r'\[/caption\]', '', content)
RECURSIVE StripCaptionEnd(_)
StripCaptionEnd(s) ==
    IF s = <<>> THEN <<>>
    ELSE IF ClosesAt(s, 1, "[/caption") THEN StripCaptionEnd(Slice(s, 3, Len(s)))
    ELSE <<Head(s)>> \o StripCaptionEnd(Tail(s))

\* \[caption.*\] anchored at i: the greedy .* stays on the line (no DOTALL)
CaptionBracket(s, i) ==
    {r \in (i + 1)..Len(s) : s[r] = "]" /\ \A k \in (i + 1)..(r - 1) : s[k] # "\n"}

\* re.sub(r'\[caption.*\]', '', new_caption), from position pos on
RECURSIVE StripCaptionStart(_, _)
StripCaptionStart(s, pos) ==
    LET starts == {i \in pos..Len(s) : s[i] = "[caption" /\ CaptionBracket(s, i) # {}}
    IN  IF starts = {} THEN Slice(s, pos, Len(s))
        ELSE LET i == Min(starts)
             IN  Slice(s, pos, i - 1) \o StripCaptionStart(s, Max(CaptionBracket(s, i)) + 1)

transform_caption(content) == StripCaptionStart(StripCaptionEnd(content), 1)

\* re.sub(r'\n{3,}', r'\n\n', content): a run of newlines longer than two becomes two
RECURSIVE SquashNewlines(_, _)
SquashNewlines(s, run) ==
    IF s = <<>> THEN <<>>
    ELSE IF Head(s) = "\n"
         THEN (IF run >= 2 THEN <<>> ELSE <<"\n">>) \o SquashNewlines(Tail(s), run + 1)
         ELSE <<Head(s)>> \o SquashNewlines(Tail(s), 0)

transform_multiple_newlines(squash_newlines, content) ==
    IF squash_newlines THEN SquashNewlines(content, 0) ELSE content

\* the result None of an unsupported post format
Unsupported == [ok |-> FALSE]

transform_content(squash_newlines, content, post_format) ==
    IF post_format = "wp"
    THEN [ok |-> TRUE,
          content |-> transform_multiple_newlines(squash_newlines,
                          transform_caption(transform_code(content))),
          extension |-> "md"]
    ELSE IF post_format = "markdown"
    THEN [ok |-> TRUE, content |-> content, extension |-> "md"]
    ELSE IF post_format = "none"
    THEN [ok |-> TRUE, content |-> content, extension |-> "html"]
    ELSE Unsupported

\* ------------------------------------------ separate_qtranslate_content

qt_start == "<!--:"

qt_end == "-->"

\* the number of characters of a token, 3 standing for three or more
TokenLen(t) ==
    IF t \in {" ", "\n", ">", "<", "&", "=", "]", "x", "\""} THEN 1
    ELSE IF t \in {"en", "fr", "de"} THEN 2
    ELSE 3

Whitespace == {" ", "\n"}

\* c.strip() is empty
Blank(c) == Range(c) \subseteq Whitespace

\* text.split(qt_start)
RECURSIVE Split(_, _)
Split(s, cur) ==
    IF s = <<>> THEN <<cur>>
    ELSE IF Head(s) = qt_start THEN <<cur>> \o Split(Tail(s), <<>>)
    ELSE Split(Tail(s), Append(cur, Head(s)))

\* c.lstrip(qt_end): leading characters of the set {'-', '>'} are dropped
RECURSIVE LStripEnd(_)
LStripEnd(c) ==
    IF c # <<>> /\ Head(c) \in {qt_end, ">"} THEN LStripEnd(Tail(c)) ELSE c

\* the number of leading tokens that make up c[:2], 0 when c[2:] does not
\* start with qt_end
LangTokens(c) ==
    IF Len(c) >= 2 /\ TokenLen(c[1]) = 2 /\ c[2] = qt_end THEN 1
    ELSE IF Len(c) >= 3 /\ TokenLen(c[1]) = 1 /\ TokenLen(c[2]) = 1 /\ c[3] = qt_end THEN 2
    ELSE 0

\* the default whatever the dict holds
GetDefault(d, k, default) == default

\* dict.get(key, default)
Get(d, k, default) == IF k \in DOMAIN d THEN d[k] ELSE default

\* d[k] = v
Put(d, k, v) == [x \in DOMAIN d \cup {k} |-> IF x = k THEN v ELSE d[x]]

EmptyDict == [x \in {} |-> <<>>]

\* one turn of the loop over qt_chunks; st holds content_by_lang, the order in
\* which its keys were inserted, and common_txt_list
QtChunk(st, c0) ==
    LET n    == LangTokens(c0)
        kind == IF Blank(c0) THEN "skip"
                ELSE IF Head(c0) = qt_end
                     THEN (IF LStripEnd(c0) = <<>> THEN "skip" ELSE "common")
                ELSE IF n > 0 THEN "lang"
                ELSE "common"
        lang == IF kind = "lang" THEN Slice(c0, 1, n) ELSE <<>>
        c    == IF kind = "lang" THEN Slice(c0, n + 2, Len(c0))
                ELSE IF Head(c0) = qt_end THEN LStripEnd(c0)
                ELSE c0
    IN  IF kind = "skip" THEN st
        ELSE IF kind = "common"
        THEN [st EXCEPT !.common = Append(@, c),
                        !.by_lang = [l \in DOMAIN @ |-> Append(@[l], c)]]
        ELSE [st EXCEPT !.by_lang = Put(@, lang, Append(Get(@, lang, st.common), c)),
                        !.keys = IF lang \in Range(@) THEN @ ELSE Append(@, lang)]

RECURSIVE QtLoop(_, _)
QtLoop(st, chunks) ==
    IF chunks = <<>> THEN st ELSE QtLoop(QtChunk(st, Head(chunks)), Tail(chunks))

\* " ".join(fragments)
RECURSIVE Join(_)
Join(fragments) ==
    IF fragments = <<>> THEN <<>>
    ELSE IF Len(fragments) = 1 THEN fragments[1]
    ELSE fragments[1] \o <<" ">> \o Join(Tail(fragments))

\* The result is the dict content_by_lang (text) with the order in which its
\* keys were inserted (keys).  A language code is the text of the code; the
\* default language "" is the empty text.
separate_qtranslate_content(text) ==
    LET st == QtLoop([by_lang |-> EmptyDict, keys |-> <<>>, common |-> <<>>],
                     Split(text, <<>>))
        by == IF st.common # <<>> /\ DOMAIN st.by_lang = {}
              THEN Put(st.by_lang, <<>>, st.common)
              ELSE st.by_lang
        ks == IF st.common # <<>> /\ DOMAIN st.by_lang = {} THEN <<(<<>>)>> ELSE st.keys
    IN  [keys |-> ks, text |-> [l \in DOMAIN by |-> Join(by[l])]]

\* ------------------------------------------------------------ the export

\* context['SITE_URL'], from the <link> of the channel
SITE_URL == "http://ex.com/"

\* context['DEFAULT_LANG'], from the <language> of the channel
DEFAULT_LANG == <<"en">>

\* the text of an element that the item does not have (None): an id, a string
NoId == -1

Absent == "<absent>"

\* A URL is the sequence of its parts: the site, the segments of its path and,
\* after "?", its query string.

\* An item of the export.  category is the list of its <category> elements,
\* domain "" when the element has no domain attribute; post_format is the
\* value of its _tc_post_format postmeta; meta describes the value of its
\* _wp_attachment_metadata postmeta and sizes lists the file names it holds.
Item(type, id, parent, link, status, content, format, date, category) ==
    [post_type |-> type, post_id |-> id, post_parent |-> parent, link |-> link,
     wp_link |-> <<>>, post_name |-> Absent, title |-> "T", description |-> "",
     excerpt |-> Absent, status |-> status, content |-> content,
     post_format |-> format, post_date |-> date, category |-> category,
     attachment_url |-> <<>>, meta |-> "absent", sizes |-> <<>>]

Attachment(id, parent, url, meta, sizes) ==
    [Item("attachment", id, parent, <<SITE_URL, "?", "attachment_id">>, "inherit",
          <<>>, Absent, "2012-09-01 10:00:00", <<>>)
     EXCEPT !.attachment_url = url, !.meta = meta, !.sizes = sizes]

Cat(text, domain) == [text |-> text, domain |-> domain]

QtContent ==
    <<qt_start, "en", qt_end, "Hello", qt_start, qt_end,
      qt_start, "fr", qt_end, "Bonjour", qt_start, qt_end>>

PostHello ==
    Item("post", 1, 0, <<SITE_URL, "2012", "hello">>, "publish",
         <<"Hello", "[code", "]", "&amp;", "[/code", "]">>, Absent,
         "2012-09-01 10:00:00", <<Cat("News", "category"), Cat("t1", "post_tag")>>)

PageDraft ==
    [Item("page", 2, 0, <<SITE_URL, "?", "page_id=2">>, "draft",
          <<"[caption", "]", "[/caption", "]">>, "wpautop", "not-a-date",
          <<Cat("Uncategorized", "category"), Cat("t2", "post_tag")>>)
     EXCEPT !.excerpt = "E"]

PostPrivate ==
    Item("post", 3, 0, <<SITE_URL, "bonjour">>, "private", QtContent, "markdown",
         "2012-09-02 10:00:00", <<Cat("news", "")>>)

PostTrash ==
    Item("post", 4, 0, <<SITE_URL, "old">>, "trash", <<"Hello">>, Absent,
         "2012-09-03 10:00:00", <<Cat("t3", "post_tag")>>)

PostEmpty ==
    Item("post", 5, 0, <<SITE_URL, "empty">>, "publish", <<" ", "\n">>, Absent,
         "2012-09-04 10:00:00", <<>>)

PostRst ==
    Item("post", 6, 0, <<SITE_URL, "rst">>, "publish", <<"Hello">>, "rst",
         "2012-09-05 10:00:00", <<Cat("t1", "post_tag")>>)

PageNoSlug ==
    Item("page", NoId, 0, <<SITE_URL, "?", "page_id=">>, "publish", <<"Hello">>, Absent,
         "2012-09-06 10:00:00", <<>>)

Upload(name) == <<SITE_URL, "wp-content", name>>

AttSizes == Attachment(10, 1, Upload("a.png"), "sizes", <<"a-150.png">>)

AttPlain ==
    [Attachment(11, 1, Upload("b.png"), "absent", <<>>)
     EXCEPT !.wp_link = <<SITE_URL, "hello", "b">>]

AttOrphan == Attachment(12, 9, Upload("c.png"), "nosizes", <<>>)

AttBadMeta == Attachment(13, 2, Upload("d.png"), "unparsable", <<>>)

AttNoParent == Attachment(14, NoId, Upload("e.png"), "novalue", <<>>)

Items ==
    {PostHello, PageDraft, PostPrivate, PostTrash, PostEmpty, PostRst, PageNoSlug,
     AttSizes, AttPlain, AttOrphan, AttBadMeta, AttNoParent}

\* the exports of a single run
Exports == SeqsUpTo(Items, MaxItems)

Options ==
    [exclude_drafts : BOOLEAN, exclude_privates : BOOLEAN,
     import_empty_items : BOOLEAN, no_downloads : BOOLEAN,
     squash_newlines : {FALSE}, separate_qtranslate_content : BOOLEAN]

\* the exports and options of a process that runs the importer repeatedly
RunItems == {PostHello, PageDraft, AttPlain}

RunExports == SeqsUpTo(RunItems, MaxRunItems)

RunOptions ==
    {o \in Options : ~o.exclude_privates /\ ~o.import_empty_items /\ o.no_downloads
                     /\ ~o.separate_qtranslate_content}

\* ------------------------------------------------------------ import_item

\* get_text_tag(tag, name, default)
get_text_tag(text, default) == IF text = Absent THEN default ELSE text

\* urlparse(link).path.strip('/').split('/') and urlparse(link).query
QueryAt(link) == {k \in 1..Len(link) : link[k] = "?"}

PathList(link) ==
    Slice(link, 2, IF QueryAt(link) = {} THEN Len(link) ELSE Min(QueryAt(link)) - 1)

HasQuery(link) == QueryAt(link) # {}

\* utils.slugify
slugify(text) ==
    IF text = "News" THEN "news"
    ELSE IF text = "Hello World" THEN "hello-world"
    ELSE text

\* the text of a number
IdText(id) == IF id = NoId THEN Absent ELSE ToString(id)

\* the slug of an item, Absent when none can be found
ItemSlug(item) ==
    IF HasQuery(item.link)
    THEN (IF item.post_name # Absent /\ item.post_name # ""
          THEN item.post_name
          ELSE IdText(item.post_id))
    ELSE (IF PathList(item.link) = <<>> THEN ""
          ELSE slugify(PathList(item.link)[Len(PathList(item.link))]))

ItemFolder(item, out_folder) ==
    IF HasQuery(item.link) THEN <<out_folder>> \o PathList(item.link)
    ELSE IF Len(PathList(item.link)) > 1
         THEN <<out_folder>> \o Slice(PathList(item.link), 1, Len(PathList(item.link)) - 1)
         ELSE <<out_folder>>

\* utils.to_datetime raises ValueError
to_datetime_fails(post_date) ==
    post_date \notin {"2012-09-01 10:00:00", "2012-09-02 10:00:00", "2012-09-03 10:00:00",
                      "2012-09-04 10:00:00", "2012-09-05 10:00:00", "2012-09-06 10:00:00"}

Epoch == "1970-01-01 00:00:00"

\* the date as the export gives it, unparsable or not
PostDateKept(item) == item.post_date

\* the post date handed to the metadata writer
PostDate(item) == IF to_datetime_fails(item.post_date) THEN Epoch ELSE item.post_date

\* the loop over the <category> elements
RECURSIVE CategoryLoop(_, _)
CategoryLoop(acc, elements) ==
    IF elements = <<>> THEN acc
    ELSE LET tag  == Head(elements)
             type == IF tag.domain = "" THEN "category" ELSE tag.domain
         IN  IF tag.text = "Uncategorized" /\ type = "category"
             THEN CategoryLoop(acc, Tail(elements))
             ELSE CategoryLoop(
                      [all_tags   |-> acc.all_tags \cup {tag.text},
                       categories |-> IF type = "category"
                                      THEN Append(acc.categories, type)
                                      ELSE acc.categories,
                       tags       |-> IF type = "category"
                                      THEN acc.tags
                                      ELSE Append(acc.tags, tag.text)],
                      Tail(elements))

\* tags, categories and the additions to all_tags of an item that is no trash
Classify(item) ==
    LET status_tags == IF item.status = "private" THEN <<"private">>
                       ELSE IF item.status # "publish" THEN <<"draft">>
                       ELSE <<>>
        looped == CategoryLoop([all_tags |-> {}, categories |-> <<>>, tags |-> status_tags],
                               item.category)
    IN  [looped EXCEPT !.tags = IF "$latex" \in Range(item.content)
                                THEN Append(@, "mathjax") ELSE @]

PostFormat(item) ==
    IF item.post_format = Absent \/ item.post_format = "wpautop" THEN "wp"
    ELSE item.post_format

_create_metadata(status, excerpt, tags, categories) ==
    [tags |-> tags \o categories, wp_status |-> status, excerpt |-> excerpt]

\* utils.get_translation_candidate with the default TRANSLATIONS_PATTERN
get_translation_candidate(slug, extension, lang) == <<slug, ".">> \o lang \o <<".", extension>>

\* The loop over content_translations.items(), taken in the order langs.  acc
\* holds the list tags, which every turn replaces, and what was written; t is
\* what transform_content returns for the first of langs and meta what
\* _create_metadata returns.
RECURSIVE VariantLoop(_, _, _)
VariantWrite(langs, acc, c, t, meta, out_content_filename) ==
    VariantLoop(Tail(langs),
        [failed   |-> FALSE,
         tags     |-> meta.tags,
         extra    |-> IF Head(langs) # <<>> /\ Head(langs) # DEFAULT_LANG
                      THEN acc.extra \cup {Head(langs)} ELSE acc.extra,
         metadata |-> acc.metadata \cup
                      {[path |-> c.out_folder \o <<c.slug, ".meta">>,
                        title |-> c.title, slug |-> c.slug,
                        date |-> c.post_date, description |-> c.description,
                        tags |-> meta.tags, wp_status |-> meta.wp_status,
                        excerpt |-> meta.excerpt]},
         content  |-> acc.content \cup
                      {[path |-> c.out_folder \o out_content_filename,
                        text |-> t.content]}],
        c)

VariantTurn(langs, acc, c, t) ==
    IF ~t.ok THEN [acc EXCEPT !.failed = TRUE]
    ELSE VariantWrite(langs, acc, c, t,
             _create_metadata(c.status, c.excerpt, acc.tags, c.categories),
             IF Head(langs) # <<>> /\ Head(langs) # DEFAULT_LANG
             THEN get_translation_candidate(c.slug, t.extension, Head(langs))
             ELSE <<c.slug, ".", t.extension>>)

VariantLoop(langs, acc, c) ==
    IF langs = <<>> THEN acc
    ELSE VariantTurn(langs, acc, c,
             transform_content(c.options.squash_newlines, c.translations[Head(langs)],
                               c.post_format))

Failure == [ok |-> FALSE, folder |-> <<>>, slug |-> ""]

\* the effects of a call that returns before it reaches the category loop
Skipped(event) ==
    [ret |-> Failure, registered |-> FALSE, all_tags |-> {}, extra |-> {},
     metadata |-> {}, content |-> {}, events |-> {event}]

\* content.strip() alone
ImportableNonEmpty(item, options) == ~Blank(item.content)

\* content.strip() or self.import_empty_items
Importable(item, options) == ~Blank(item.content) \/ options.import_empty_items

\* the key and the value of the entry of url_map of an item
UrlMapValue(item, out_folder) ==
    <<SITE_URL>> \o ItemFolder(item, out_folder) \o <<ItemSlug(item), ".html">>

\* what import_item does once the item is classified (cls) and the loop over
\* its language variants has run (loop)
ImportOutcome(item, options, folder, slug, cls, dated, loop) ==
    IF HasQuery(item.link) /\ (slug = Absent \/ slug = "")
    THEN Skipped("no_slug")
    ELSE IF item.status = "trash"
    THEN [Skipped("trashed") EXCEPT !.events = @ \cup dated]
    ELSE IF item.status \notin {"private", "publish"} /\ options.exclude_drafts
    THEN [Skipped("draft_excluded") EXCEPT !.events = @ \cup dated,
                                           !.all_tags = cls.all_tags]
    ELSE IF item.status = "private" /\ options.exclude_privates
    THEN [Skipped("private_excluded") EXCEPT !.events = @ \cup dated,
                                             !.all_tags = cls.all_tags]
    ELSE IF ~Importable(item, options)
    THEN [Skipped("no_content") EXCEPT !.events = @ \cup dated,
                                       !.all_tags = cls.all_tags]
    ELSE [ret |-> IF loop.failed THEN Failure
                  ELSE [ok |-> TRUE, folder |-> folder, slug |-> slug],
          registered |-> TRUE, all_tags |-> cls.all_tags, extra |-> loop.extra,
          metadata |-> loop.metadata, content |-> loop.content,
          events |-> IF loop.failed THEN dated \cup {"cannot_interpret"} ELSE dated]

\* the item classified: its tags and categories, and the loop over the items
\* of translations taken in the order langs
ImportClassified(item, options, folder, slug, cls, translations, langs) ==
    ImportOutcome(item, options, folder, slug, cls,
        IF to_datetime_fails(item.post_date) THEN {"malformed_date"} ELSE {},
        VariantLoop(langs,
            [failed |-> FALSE, tags |-> cls.tags, extra |-> {}, metadata |-> {},
             content |-> {}],
            [options |-> options, translations |-> translations,
             post_format |-> PostFormat(item), slug |-> slug, out_folder |-> folder,
             title |-> get_text_tag(item.title, "NO TITLE"),
             post_date |-> PostDate(item), description |-> item.description,
             status |-> item.status,
             excerpt |-> IF item.excerpt = "" THEN Absent ELSE item.excerpt,
             categories |-> cls.categories]))

\* content_translations
Translations(item, options) ==
    IF options.separate_qtranslate_content
    THEN separate_qtranslate_content(item.content).text
    ELSE [l \in {<<>>} |-> item.content]

\* import_item(item, wordpress_namespace, out_folder) with the items of
\* content_translations taken in the order langs: what it returns (ret),
\* whether it sets url_map[link], what it adds to all_tags and to
\* extra_languages, the metadata and content it has written and what it logs
import_item(item, out_folder, options, langs) ==
    ImportClassified(item, options, ItemFolder(item, out_folder), ItemSlug(item),
                     Classify(item), Translations(item, options), langs)

\* the sequences that hold every element of keys once
Orderings(keys) == {o \in [1..Cardinality(keys) -> keys] : Range(o) = keys}

\* the orders in which the items of content_translations can come
TranslationOrders(item, options) == Orderings(DOMAIN Translations(item, options))

\* ------------------------------------------------------ import_attachment

\* urlparse(url).path and os.path.dirname(url)
UrlPath(url) == IF Head(url) = SITE_URL THEN PathList(url) ELSE url

Dirname(url) == Slice(url, 1, Len(url) - 1)

\* '/' + dst_url: the site-relative address of a file stored under files/
FileUrl(url) == <<"/">> \o UrlPath(url)

\* phpserialize.loads raises ValueError
loads_fails(meta) == meta = "unparsable"

\* the loop over the file names of the size variants
RECURSIVE SizesLoop(_, _, _)
SizesLoop(acc, source_path, filenames) ==
    IF filenames = <<>> THEN acc
    ELSE LET url == Append(source_path, Head(filenames))
         IN  SizesLoop([acc EXCEPT !.downloads = Append(@, url),
                                   !.links = Put(@, url, FileUrl(url)),
                                   !.result = Append(@, UrlPath(url))],
                       source_path, Tail(filenames))

\* download_additional_image_sizes(item, wordpress_namespace, source_path):
\* whether it raises, the list it returns, links after it and the URLs it
\* has passed to download_url_content_to_file
download_additional_image_sizes(item, source_path, links0, has_phpserialize) ==
    LET none == [raised |-> FALSE, result |-> <<>>, links |-> links0, downloads |-> <<>>]
    IN  IF ~has_phpserialize THEN none
        ELSE IF item.meta \in {"absent", "novalue"} THEN none
        ELSE IF loads_fails(item.meta) THEN [none EXCEPT !.raised = TRUE]
        ELSE IF item.meta = "nosizes" THEN none
        ELSE SizesLoop(none, source_path, item.sizes)

import_attachment(item, links0, has_phpserialize) ==
    LET url   == IF item.attachment_url = <<>> THEN <<"foo">> ELSE item.attachment_url
        link  == IF item.wp_link = <<>> THEN <<"foo">> ELSE item.wp_link
        own   == Put(Put(links0, link, FileUrl(url)), url, FileUrl(url))
        sizes == download_additional_image_sizes(item, Dirname(url), own, has_phpserialize)
    IN  [raised |-> sizes.raised,
         files |-> <<UrlPath(url)>> \o sizes.result,
         links |-> sizes.links,
         downloads |-> <<url>> \o sizes.downloads]

\* self.site.link('tag', tag)
site_link(tag) == <<"/", "categories", tag, ".html">>

\* the loop that adds the tag redirects to url_map
RECURSIVE TagRedirects(_, _)
TagRedirects(map, tags) ==
    IF tags = {} THEN map
    ELSE LET tag     == CHOOSE t \in tags : TRUE
             src_url == <<SITE_URL, "tag", slugify(tag)>>
             dst_url == site_link(slugify(tag))
         IN  TagRedirects(IF src_url # dst_url THEN Put(map, src_url, dst_url) ELSE map,
                          tags \ {tag})

\* ------------------------------------------------------------- the state

VARIABLES
    phpserialize,     \* the module phpserialize could be imported
    all_tags,         \* the class attribute CommandImportWordpress.all_tags
    links,            \* the module-level dict basic_import.links
    runs,             \* the number of calls of _execute so far
    pc,               \* where the current run is
    options,          \* the options of the current run
    channel,          \* the items of the export of the current run
    idx,              \* the item import_posts comes to next
    url_map,          \* self.url_map
    extra_languages,  \* self.extra_languages
    posts_pages,      \* self.posts_pages
    attachments,      \* self.attachments
    last,             \* what the last call of process_item did and wrote
    metadata,         \* the calls of write_metadata of the current run
    content,          \* the calls of write_content of the current run
    sidecars,         \* the calls of write_attachments_info of the current run
    downloads,        \* the URLs passed to requests.get in the current run
    log,              \* what the current run has logged
    csv,              \* the map written to url_map.csv by the current run
    results,          \* what the finished runs of the process have written
    tc_in,            \* a text handed to transform_code
    tc_out,           \* and the text transform_code returns for it
    qt_parts,         \* the sections of a text for separate_qtranslate_content
    qt_out            \* and what separate_qtranslate_content returns for it

process_vars == <<phpserialize, all_tags, links, runs, results>>

run_vars == <<pc, options, channel, idx, url_map, extra_languages, posts_pages,
              attachments, last>>

output_vars == <<metadata, content, sidecars, downloads, log, csv>>

text_vars == <<tc_in, tc_out, qt_parts, qt_out>>

NoTranslations == [called |-> FALSE, keys |-> <<>>, text |-> EmptyDict]

vars == <<process_vars, run_vars, output_vars, text_vars>>

NoCall ==
    [call |-> "none", index |-> 0, raised |-> FALSE, ret |-> Failure, files |-> <<>>,
     registered |-> FALSE, metadata |-> {}, content |-> {}]

NoCsv == [written |-> FALSE, map |-> EmptyDict]

NoOptions == CHOOSE o \in Options : \A f \in DOMAIN o : ~o[f]

\* the process before the first run
Loaded ==
    /\ all_tags = {}
    /\ links = EmptyDict
    /\ runs = 0
    /\ results = {}
    /\ pc = "idle"
    /\ options = NoOptions
    /\ channel = <<>>
    /\ idx = 1
    /\ url_map = EmptyDict
    /\ extra_languages = {}
    /\ posts_pages = EmptyDict
    /\ attachments = EmptyDict
    /\ last = NoCall
    /\ metadata = {}
    /\ content = {}
    /\ sidecars = {}
    /\ downloads = {}
    /\ log = {}
    /\ csv = NoCsv

Init ==
    /\ Loaded
    /\ phpserialize \in BOOLEAN
    /\ tc_in = <<>>
    /\ tc_out = <<>>
    /\ qt_parts = <<>>
    /\ qt_out = NoTranslations

Event(event, index, id) == [event |-> event, index |-> index, id |-> id]

\* _execute up to the loop of import_posts: _read_options, the new site and
\* the empty posts_pages and attachments. With downloads on and phpserialize
\* missing, req_missing logs that the package is missing and the run goes on.
_execute(opts, export) ==
    /\ pc \in {"idle", "done", "aborted"}
    /\ runs' = runs + 1
    /\ options' = opts
    /\ channel' = export
    /\ url_map' = EmptyDict
    /\ extra_languages' = {}
    /\ posts_pages' = EmptyDict
    /\ attachments' = EmptyDict
    /\ idx' = 1
    /\ pc' = "items"
    /\ last' = NoCall
    /\ metadata' = {}
    /\ content' = {}
    /\ sidecars' = {}
    /\ downloads' = {}
    /\ log' = {}
    /\ csv' = NoCsv
    /\ UNCHANGED <<phpserialize, all_tags, links, results, text_vars>>

\* int(get_text_tag(item, 'wp:post_id', "0"))
PostId(item) == IF item.post_id = NoId THEN 0 ELSE item.post_id

\* process_item for an attachment; att is what import_attachment does
ProcessImportedAttachment(item, att) ==
    /\ links' = att.links
    /\ downloads' = IF options.no_downloads THEN downloads
                    ELSE downloads \cup Range(att.downloads)
    /\ last' = [call |-> "import_attachment", index |-> idx, raised |-> att.raised,
                ret |-> Failure, files |-> att.files, registered |-> FALSE,
                metadata |-> {}, content |-> {}]
    /\ IF att.raised
       THEN /\ pc' = "aborted"
            /\ UNCHANGED <<attachments, log, idx>>
       ELSE /\ pc' = pc
            /\ idx' = idx + 1
            /\ IF item.post_parent # NoId
               THEN /\ attachments' =
                         Put(attachments, item.post_parent,
                             Put(Get(attachments, item.post_parent, EmptyDict),
                                 PostId(item), att.files))
                    /\ log' = log
               ELSE /\ attachments' = attachments
                    /\ log' = log \cup {Event("no_parent", idx, PostId(item))}

ProcessAttachment ==
    /\ pc = "items"
    /\ idx <= Len(channel)
    /\ channel[idx].post_type = "attachment"
    /\ ProcessImportedAttachment(channel[idx],
                                 import_attachment(channel[idx], links, phpserialize))
    /\ UNCHANGED <<phpserialize, all_tags, runs, results, options, channel, url_map,
                   extra_languages, posts_pages, metadata, content, sidecars, csv,
                   text_vars>>

\* the out_folder process_item passes to import_item
OutFolder(item) == IF item.post_type = "post" THEN "posts" ELSE "stories"

\* process_item for a post or a page; r is what import_item does
ProcessImported(item, r) ==
    /\ url_map' = IF r.registered
                  THEN Put(url_map, item.link, UrlMapValue(item, OutFolder(item)))
                  ELSE url_map
    /\ all_tags' = all_tags \cup r.all_tags
    /\ extra_languages' = extra_languages \cup r.extra
    /\ metadata' = metadata \cup r.metadata
    /\ content' = content \cup r.content
    /\ log' = log \cup {Event(e, idx, PostId(item)) : e \in r.events}
    /\ posts_pages' = IF r.ret.ok
                      THEN Put(posts_pages, PostId(item),
                               <<IF item.post_type = "post" THEN "post" ELSE "page",
                                 r.ret.folder, r.ret.slug>>)
                      ELSE posts_pages
    /\ last' = [call |-> "import_item", index |-> idx, raised |-> FALSE,
                ret |-> r.ret, files |-> <<>>, registered |-> r.registered,
                metadata |-> r.metadata, content |-> r.content]

ProcessPost ==
    /\ pc = "items"
    /\ idx <= Len(channel)
    /\ channel[idx].post_type # "attachment"
    /\ \E langs \in TranslationOrders(channel[idx], options) :
        ProcessImported(channel[idx],
                        import_item(channel[idx], OutFolder(channel[idx]), options, langs))
    /\ idx' = idx + 1
    /\ UNCHANGED <<phpserialize, links, runs, results, pc, options, channel, attachments,
                   sidecars, downloads, csv, text_vars>>

\* the second loop of import_posts: the attachments are assigned to the posts
AssignAttachments ==
    /\ pc = "items"
    /\ idx > Len(channel)
    /\ sidecars' = {[post_id |-> id,
                     path |-> posts_pages[id][2] \o <<posts_pages[id][3], ".attachments.json">>,
                     data |-> attachments[id]] :
                    id \in DOMAIN attachments \cap DOMAIN posts_pages}
    /\ log' = log \cup {Event("orphans", 0, id) :
                        id \in DOMAIN attachments \ DOMAIN posts_pages}
    /\ pc' = "redirects"
    /\ UNCHANGED <<process_vars, options, channel, idx, url_map, extra_languages,
                   posts_pages, attachments, last, metadata, content, downloads, csv,
                   text_vars>>

\* the rest of _execute: the tag redirects and url_map.csv
Finish ==
    /\ pc = "redirects"
    /\ url_map' = TagRedirects(url_map, all_tags)
    /\ csv' = [written |-> TRUE, map |-> url_map']
    /\ results' = results \cup {[channel |-> channel, options |-> options,
                                 url_map |-> url_map', metadata |-> metadata,
                                 content |-> content]}
    /\ pc' = "done"
    /\ UNCHANGED <<phpserialize, all_tags, links, runs, options, channel, idx,
                   extra_languages, posts_pages, attachments, last, metadata, content,
                   sidecars, downloads, log, text_vars>>

\* one run of the importer in a new process
ExecuteOnce ==
    /\ runs = 0
    /\ \E opts \in Options, export \in Exports : _execute(opts, export)

\* a process that runs the importer again and again
ExecuteAgain ==
    /\ runs < MaxRuns
    /\ \E opts \in RunOptions, export \in RunExports : _execute(opts, export)

Next == ExecuteOnce \/ ProcessAttachment \/ ProcessPost \/ AssignAttachments \/ Finish

NextRuns == ExecuteAgain \/ ProcessAttachment \/ ProcessPost \/ AssignAttachments \/ Finish

Spec == Init /\ [][Next]_vars

SpecRuns == Init /\ [][NextRuns]_vars

\* ------------------------------------------------------------- the claims

PostIndexes == {k \in 1..Len(channel) : channel[k].post_type # "attachment"}

AttachmentIndexes == {k \in 1..Len(channel) : channel[k].post_type = "attachment"}

\* a draft with exclude-drafts on, a private item with exclude-privates on
Excluded(item) ==
    \/ item.status \notin {"publish", "private", "trash"} /\ options.exclude_drafts
    \/ item.status = "private" /\ options.exclude_privates

\* every item has an id and no two posts or pages have the same link
WellFormed(export) ==
    /\ \A k \in 1..Len(export) : export[k].post_id # NoId
    /\ \A j, k \in 1..Len(export) :
        (j # k /\ export[j].post_type # "attachment" /\ export[k].post_type # "attachment")
            => export[j].link # export[k].link

\* import_posts has processed every item and url_map holds no tag redirect yet
ItemsProcessed == pc = "redirects"

\* the run has come to its end, or an exception has ended it
RunEnded == pc \in {"redirects", "done", "aborted"}

NonEmptyPosts ==
    {k \in PostIndexes : /\ channel[k].status # "trash"
                         /\ ~Excluded(channel[k])
                         /\ ~Blank(channel[k].content)}

AcceptedPosts ==
    {k \in PostIndexes : /\ channel[k].status # "trash"
                         /\ ~Excluded(channel[k])
                         /\ (~Blank(channel[k].content) \/ options.import_empty_items)}

\* C1 as stated: once import_posts has processed all items of a well-formed
\* export, the entries of the URL Map are exactly one for every post or page
\* that is not trashed, not excluded and has non-empty content.
C1_Original ==
    (ItemsProcessed /\ WellFormed(channel)) =>
        /\ DOMAIN url_map = {channel[k].link : k \in NonEmptyPosts}
        /\ Cardinality(DOMAIN url_map) = Cardinality(NonEmptyPosts)

\* C1: once import_posts has processed all items of a well-formed export, the
\* entries of the URL Map are exactly one for every post or page that is not
\* trashed, not excluded, and has non-empty content or is imported empty
\* because include-empty-items is on.
C1_UrlMapEntries ==
    (ItemsProcessed /\ WellFormed(channel)) =>
        /\ DOMAIN url_map = {channel[k].link : k \in AcceptedPosts}
        /\ Cardinality(DOMAIN url_map) = Cardinality(AcceptedPosts)

C1_Witness ==
    /\ ItemsProcessed
    /\ WellFormed(channel)
    /\ options.import_empty_items
    /\ Cardinality(NonEmptyPosts) = 1
    /\ Cardinality(DOMAIN url_map) = 2

\* C2 as stated: a call of import_item that returns the failure signal has
\* registered no URL Map entry and has recorded nothing in posts_pages, and no
\* sidecar is written for an item that was not recorded.
C2_Original ==
    [][/\ (last'.call = "import_item" /\ last' # last /\ ~last'.ret.ok)
            => (url_map' = url_map /\ posts_pages' = posts_pages)
       /\ \A sc \in sidecars' : sc.post_id \in DOMAIN posts_pages']_vars

OrphanAttachments ==
    {k \in AttachmentIndexes : /\ channel[k].post_parent # NoId
                               /\ channel[k].post_parent \notin DOMAIN posts_pages}

\* the attachment at k of the export has been resolved and indexed
Resolved(k) ==
    /\ channel[k].post_parent \in DOMAIN attachments
    /\ PostId(channel[k]) \in DOMAIN attachments[channel[k].post_parent]
    /\ (~options.no_downloads /\ channel[k].attachment_url # <<>>)
            => channel[k].attachment_url \in downloads

\* C3 as stated: at the end of a run, every attachment whose parent id is not
\* the id of an imported post or page has been resolved, a warning has been
\* logged for its parent id, no sidecar has been written for that id, and the
\* run was not aborted.
C3_Original ==
    RunEnded =>
        \A k \in OrphanAttachments :
            /\ pc # "aborted"
            /\ Resolved(k)
            /\ Event("orphans", 0, channel[k].post_parent) \in log
            /\ \A sc \in sidecars : sc.post_id # channel[k].post_parent

\* the same in the runs that no exception ends
C3_WhenCompleted ==
    (RunEnded /\ pc # "aborted") =>
        \A k \in OrphanAttachments :
            /\ Resolved(k)
            /\ Event("orphans", 0, channel[k].post_parent) \in log
            /\ \A sc \in sidecars : sc.post_id # channel[k].post_parent

\* the attachment items of the export whose parent id is id
Children(id) == {k \in AttachmentIndexes : channel[k].post_parent = id}

\* the sidecar written for the post or page id is the one the claim describes
SidecarOf(sc, id) ==
    /\ sc.post_id = id
    /\ sc.path = posts_pages[id][2] \o <<posts_pages[id][3], ".attachments.json">>
    /\ DOMAIN sc.data = {PostId(channel[k]) : k \in Children(id)}
    /\ \A k \in Children(id) :
        Head(sc.data[PostId(channel[k])]) =
            UrlPath(IF channel[k].attachment_url = <<>> THEN <<"foo">>
                    ELSE channel[k].attachment_url)

\* C4 as stated: sidecars are written only after all items have been
\* processed, and at the end of a run every imported post or page that is the
\* parent of an attachment item has exactly one sidecar, whose keys are the
\* ids of all the attachment items with that parent id.
C4_Original ==
    /\ sidecars # {} => pc \in {"redirects", "done"}
    /\ RunEnded =>
        \A id \in DOMAIN posts_pages :
            Children(id) # {} =>
                /\ \E sc \in sidecars : SidecarOf(sc, id)
                /\ Cardinality({sc \in sidecars : sc.post_id = id}) = 1

\* the same in the runs that no exception ends
C4_WhenCompleted ==
    /\ sidecars # {} => pc \in {"redirects", "done"}
    /\ (RunEnded /\ pc # "aborted") =>
        \A id \in DOMAIN posts_pages :
            Children(id) # {} =>
                /\ \E sc \in sidecars : SidecarOf(sc, id)
                /\ Cardinality({sc \in sidecars : sc.post_id = id}) = 1

\* C5 as stated: for an attachment whose size metadata is absent or cannot be
\* parsed, download_additional_image_sizes returns the empty list without
\* raising, and no item's processing aborts the run.
C5_Original ==
    /\ pc # "aborted"
    /\ (last.call = "import_attachment"
        /\ channel[last.index].meta \in {"absent", "novalue", "unparsable"})
            => (~last.raised /\ Len(last.files) = 1)

\* the source URL and the link under which import_attachment registers an item
SourceUrl(item) == IF item.attachment_url = <<>> THEN <<"foo">> ELSE item.attachment_url

RegisteredLink(item) == IF item.wp_link = <<>> THEN <<"foo">> ELSE item.wp_link

\* C6 as stated: after import_attachment has processed an attachment, the URL
\* Map holds an entry for its link and one for its source URL, both pointing
\* at the new path of the file.
C6_Original ==
    (last.call = "import_attachment" /\ ~last.raised) =>
        /\ channel[last.index].link \in DOMAIN url_map
        /\ SourceUrl(channel[last.index]) \in DOMAIN url_map
        /\ url_map[SourceUrl(channel[last.index])] = FileUrl(SourceUrl(channel[last.index]))

\* what import_attachment registers: the module-level dict links holds an
\* entry for the source URL of the attachment and one for the text of its
\* wp-namespaced link element ('foo' when it has none), and an entry for the
\* URL of every size variant; the URL Map, which alone is written to
\* url_map.csv, holds none of them.
AttachmentsInLinks ==
    /\ (last.call = "import_attachment" /\ ~last.raised) =>
        /\ SourceUrl(channel[last.index]) \in DOMAIN links
        /\ links[SourceUrl(channel[last.index])] = FileUrl(SourceUrl(channel[last.index]))
        /\ RegisteredLink(channel[last.index]) \in DOMAIN links
        /\ links[RegisteredLink(channel[last.index])] = FileUrl(SourceUrl(channel[last.index]))
        /\ (phpserialize /\ channel[last.index].meta = "sizes") =>
            \A f \in Range(channel[last.index].sizes) :
                /\ Append(Dirname(SourceUrl(channel[last.index])), f) \in DOMAIN links
                /\ links[Append(Dirname(SourceUrl(channel[last.index])), f)] =
                       <<"/">> \o Tail(Append(Dirname(SourceUrl(channel[last.index])), f))
    /\ \A k \in AttachmentIndexes :
        /\ SourceUrl(channel[k]) \notin DOMAIN url_map
        /\ SourceUrl(channel[k]) \notin DOMAIN csv.map

\* C7: no metadata is written with a date that cannot be parsed; the call of
\* import_item for an item with such a date logs an error, writes the metadata
\* of the item with the date 1970-01-01 00:00:00 if the item is otherwise
\* imported, and the run goes on with the next item.
C7_EpochDate ==
    /\ \A m \in metadata : m.date # "not-a-date"
    /\ (last.call = "import_item" /\ channel[last.index].post_date = "not-a-date"
        /\ channel[last.index].post_id # NoId) =>
        /\ Event("malformed_date", last.index, PostId(channel[last.index])) \in log
        /\ pc # "aborted"
        /\ pc = "items" => idx = last.index + 1
        /\ \A m \in metadata :
            m.path = ItemFolder(channel[last.index], OutFolder(channel[last.index]))
                         \o <<ItemSlug(channel[last.index]), ".meta">>
                => m.date = "1970-01-01 00:00:00"
        /\ (/\ channel[last.index].status # "trash"
            /\ ~Excluded(channel[last.index])
            /\ ~Blank(channel[last.index].content))
                => /\ last.ret.ok
                   /\ channel[last.index].link \in DOMAIN url_map
                   /\ \E m \in metadata :
                        /\ m.slug = last.ret.slug
                        /\ m.date = "1970-01-01 00:00:00"

C7_Witness ==
    /\ last.call = "import_item"
    /\ channel[last.index].post_date = "not-a-date"
    /\ last.ret.ok
    /\ \E m \in metadata : m.slug = last.ret.slug /\ m.date = "1970-01-01 00:00:00"
    /\ pc = "items"
    /\ idx = 2
    /\ Len(channel) = 2

\* the tags and categories of the items of an export
ExportTags(export) ==
    {c.text : c \in UNION {Range(export[k].category) : k \in 1..Len(export)}}

\* C8 as stated: all_tags is empty when a run starts, and the URL Map a run
\* writes holds tag redirects only for the tags of the export of that run.
C8_Original ==
    /\ (pc = "items" /\ idx = 1 /\ last = NoCall) => all_tags = {}
    /\ csv.written =>
        \A u \in DOMAIN csv.map :
            (Len(u) = 3 /\ u[2] = "tag") =>
                \E t \in ExportTags(channel) : u[3] = slugify(t)

\* C9 as stated: any two runs of the importer on the same export with the
\* same options write the same URL Map and the same metadata and content.
C9_Original ==
    \A r1, r2 \in results :
        (r1.channel = r2.channel /\ r1.options = r2.options) =>
            /\ r1.url_map = r2.url_map
            /\ r1.metadata = r2.metadata
            /\ r1.content = r2.content

\* the item of the last call of import_item
LastItem == channel[last.index]

\* the last call of import_item did not return before the content was tested
Eligible(item) ==
    /\ ~(HasQuery(item.link) /\ ItemSlug(item) \in {Absent, ""})
    /\ item.status # "trash"
    /\ ~Excluded(item)

\* the content of the item is empty after the transformation of its format
EmptyWhenTransformed(item) ==
    /\ transform_content(options.squash_newlines, item.content, PostFormat(item)).ok
    /\ Blank(transform_content(options.squash_newlines, item.content,
                               PostFormat(item)).content)

\* C13 as stated: with include-empty-items off, the call of import_item for an
\* item whose content is empty after the transformation of its post format
\* logs, writes no content and no metadata, registers no URL Map entry and
\* returns the failure signal.
C13_Original ==
    (/\ last.call = "import_item"
     /\ ~options.import_empty_items
     /\ Eligible(LastItem)
     /\ EmptyWhenTransformed(LastItem)) =>
        /\ ~last.ret.ok
        /\ ~last.registered
        /\ last.metadata = {}
        /\ last.content = {}
        /\ Event("no_content", last.index, PostId(LastItem)) \in log

\* the same for the items whose content is empty before the transformation
C13_WhenBlank ==
    (/\ last.call = "import_item"
     /\ ~options.import_empty_items
     /\ Eligible(LastItem)
     /\ Blank(LastItem.content)) =>
        /\ ~last.ret.ok
        /\ ~last.registered
        /\ last.metadata = {}
        /\ last.content = {}
        /\ Event("no_content", last.index, PostId(LastItem)) \in log

\* C14 as stated: the tag list of every metadata written for an imported item
\* holds the text of every category element and of every tag element of the
\* item but 'Uncategorized'.
C14_Original ==
    (last.call = "import_item" /\ last.ret.ok) =>
        \A m \in last.metadata :
            \A k \in 1..Len(LastItem.category) :
                LastItem.category[k].text # "Uncategorized"
                    => LastItem.category[k].text \in Range(m.tags)

\* C15 as stated: when import_item returns success and the item is registered
\* in the URL Map and in posts_pages, the call has written at least one
\* content file and one metadata file.
C15_Original ==
    (/\ last.call = "import_item"
     /\ last.ret.ok
     /\ last.registered
     /\ PostId(LastItem) \in DOMAIN posts_pages) =>
        /\ last.metadata # {}
        /\ last.content # {}

\* C16 as stated: the metadata written for the language variants of an item
\* all have the same tag list and the same other metadata.
C16_Original ==
    last.call = "import_item" =>
        \A m1, m2 \in last.metadata :
            /\ m1.tags = m2.tags
            /\ m1.wp_status = m2.wp_status
            /\ m1.excerpt = m2.excerpt

\* ------------------------------------------------- transform_code alone

Entities == {"&amp;", "&gt;", "&lt;", "&quot;"}

BodyTokens == Entities \cup {"x"}

CodeBodies == {b \in SeqsUpTo(BodyTokens, MaxBody) : Range(b) \cap Entities # {}}

LangAttrs == {<<>>, <<" lang", "=", "\"", "py", "\"">>}

Markers == {<<"[code", "[/code">>, <<"[sourcecode", "[/sourcecode">>}

MarkedCode(pre, mk, attr, body) ==
    pre \o <<mk[1]>> \o attr \o <<"]">> \o body \o <<mk[2], "]">>

CodeInputs ==
    {MarkedCode(pre, mk, attr, body) :
        pre \in {<<>>, <<"x">>}, mk \in Markers, attr \in LangAttrs, body \in CodeBodies}

InitTC ==
    /\ Loaded
    /\ phpserialize = TRUE
    /\ tc_in \in CodeInputs
    /\ tc_out = <<>>
    /\ qt_parts = <<>>
    /\ qt_out = NoTranslations

TransformCode ==
    /\ tc_out = <<>>
    /\ tc_out' = transform_code(tc_in)
    /\ UNCHANGED <<process_vars, run_vars, output_vars, tc_in, qt_parts, qt_out>>

SpecTC == InitTC /\ [][TransformCode]_vars

MarkerTokens == {"[code", "[/code", "[sourcecode", "[/sourcecode"}

\* the positions of the output between an opening and a closing fence
Fenced(out) ==
    {k \in 1..Len(out) :
        /\ \E a \in 1..(k - 1) : out[a] = Fence
        /\ \E b \in (k + 1)..Len(out) : out[b] = Fence}

\* C10 as stated: for a text in which a code marker encloses entities, the
\* output of transform_code holds the unescaped characters in a fenced code
\* block and no marker token.
C10_Original ==
    tc_out # <<>> =>
        /\ \A e \in Range(tc_in) \cap Entities :
            \E k \in Fenced(tc_out) : tc_out[k] = UnescapeToken(e)
        /\ Range(tc_out) \cap MarkerTokens = {}

\* ------------------------------------- separate_qtranslate_content alone

QtLangs == {<<"en">>, <<"fr">>}

QtTexts == {<<"Hello">>, <<"Bonjour">>, <<" ">>, <<>>}

\* the common text after the end token of a section, none when empty
QtAfter == {<<>>, <<"Hi">>, <<">", "Hi">>, <<" ">>}

\* a language section <!--:LL-->text<!--:--> and the common text after it
QtParts == [lang : QtLangs, text : QtTexts, after : QtAfter]

\* the text made of the sections parts
RECURSIVE QtText(_)
QtText(parts) ==
    IF parts = <<>> THEN <<>>
    ELSE <<qt_start>> \o Head(parts).lang \o <<qt_end>> \o Head(parts).text
         \o <<qt_start, qt_end>> \o Head(parts).after \o QtText(Tail(parts))

InitQT ==
    /\ Loaded
    /\ phpserialize = TRUE
    /\ tc_in = <<>>
    /\ tc_out = <<>>
    /\ qt_parts \in SeqsUpTo(QtParts, MaxSections)
    /\ qt_out = NoTranslations

SeparateQtranslateContent ==
    /\ ~qt_out.called
    /\ qt_out' = [called |-> TRUE,
                  keys |-> separate_qtranslate_content(QtText(qt_parts)).keys,
                  text |-> separate_qtranslate_content(QtText(qt_parts)).text]
    /\ UNCHANGED <<process_vars, run_vars, output_vars, tc_in, tc_out, qt_parts>>

SpecQT == InitQT /\ [][SeparateQtranslateContent]_vars

\* the texts of the sections of language l, in order of appearance
RECURSIVE SectionTexts(_, _)
SectionTexts(parts, l) ==
    IF parts = <<>> THEN <<>>
    ELSE (IF Head(parts).lang = l THEN <<Head(parts).text>> ELSE <<>>)
         \o SectionTexts(Tail(parts), l)

\* the texts of the sections of language l and the common texts, in order of
\* appearance
RECURSIVE SectionAndCommonTexts(_, _)
SectionAndCommonTexts(parts, l) ==
    IF parts = <<>> THEN <<>>
    ELSE (IF Head(parts).lang = l THEN <<Head(parts).text>> ELSE <<>>)
         \o (IF Head(parts).after # <<>> THEN <<Head(parts).after>> ELSE <<>>)
         \o SectionAndCommonTexts(Tail(parts), l)

LangsUsed(parts) == {parts[k].lang : k \in 1..Len(parts)}

OnlySections(parts) == \A k \in 1..Len(parts) : parts[k].after = <<>>

\* C11: for a text made only of language sections <!--:LL-->text<!--:-->,
\* separate_qtranslate_content returns a map whose keys are exactly the
\* language codes used and whose value for a code is the exact texts of the
\* sections of that code, in order of appearance, joined by single spaces.
C11_SectionsExact ==
    (qt_out.called /\ OnlySections(qt_parts)) =>
        /\ DOMAIN qt_out.text = LangsUsed(qt_parts)
        /\ \A l \in LangsUsed(qt_parts) :
            qt_out.text[l] = Join(SectionTexts(qt_parts, l))

C11_Witness ==
    /\ qt_out.called
    /\ OnlySections(qt_parts)
    /\ Len(qt_parts) = 2
    /\ qt_parts[1].lang = qt_parts[2].lang
    /\ qt_out.text[qt_parts[1].lang] = <<"Hello", " ", "Bonjour">>

\* C12 as stated: common text after a bare end token is added unaltered to
\* every language: the text of every language is made of the texts of its
\* sections and of every common text of the input, each once and character
\* for character, in order of appearance and joined by single spaces.
C12_Original ==
    qt_out.called =>
        /\ DOMAIN qt_out.text = LangsUsed(qt_parts)
        /\ \A l \in LangsUsed(qt_parts) :
            qt_out.text[l] = Join(SectionAndCommonTexts(qt_parts, l))

\* the same for the texts whose common texts begin with neither '-' nor '>'
C12_WhenNoLeadingEndCharacters ==
    (qt_out.called /\ \A k \in 1..Len(qt_parts) :
                          qt_parts[k].after = <<>> \/ Head(qt_parts[k].after) # ">") =>
        /\ DOMAIN qt_out.text = LangsUsed(qt_parts)
        /\ \A l \in LangsUsed(qt_parts) :
            qt_out.text[l] = Join(SectionAndCommonTexts(qt_parts, l))
====
